---- MODULE Spec2Model ----
(***************************************************************************)
(* Model of src/whisperx_cli.py: the speaker attribution of               *)
(* WhisperDiarizeProcessor.align_transcription_with_speakers, the stdout   *)
(* suppression of maybe_call / suppress_output, save_results, and the      *)
(* stage sequence of main() with its failure handling.                     *)
(*                                                                         *)
(* Times are integers (one unit = one second).  A Python dict key that is  *)
(* missing is modelled by the value Absent; Optional[Dict] is a record     *)
(* with a `present` flag (None = NoneResult).                              *)
(***************************************************************************)
EXTENDS Integers, Sequences, FiniteSets

\* ---------------------------------------------------------------- bounds
\* Largest time stamp and longest sequence of well-formed turns handed to a
\* direct call of the attribution.
MaxTime == 4
MaxTurns == 3
\* Largest time stamp, longest transcript and longest turn sequence the
\* backends return in a pipeline run.
MaxPipeTime == 2
MaxPipeSegs == 1
MaxPipeTurns == 1
\* Largest number of segments of a transcript passed to the attribution with a
\* short diarization result.
MaxSegs == 2
\* Largest number of hours in an argument of seconds_to_srt_time.
MaxHours == 1

\* ------------------------------------------------------------ data model
Absent == "<absent>"
UNKNOWN == "UNKNOWN"
Labels == {"SPEAKER_00", "SPEAKER_01"}
Texts == {"hello"}

Min(a, b) == IF a < b THEN a ELSE b
Max(a, b) == IF a > b THEN a ELSE b

WellFormed(t) == t.start < t.end

\* The segments transcribe_audio builds, with boundaries up to T: start < end,
\* no speaker key yet.
Segments(T) == {s \in [start : 0..T, end : 0..T, text : Texts, speaker : {Absent}] :
                   WellFormed(s)}

\* The segments a caller may pass, with boundaries up to T: neither
\* transcribe_audio nor the attribution checks start < end, so a segment of
\* zero length is among them.
RawSegments(T) == {s \in [start : 0..T, end : 0..T, text : Texts, speaker : {Absent}] :
                      s.start <= s.end}

\* The turns diarize_audio builds, with boundaries up to T; the code does not
\* validate start < end.
RawTurns(T) == [start : 0..T, end : 0..T, speaker : Labels]

\* The turns that satisfy start < end.
Turns(T) == {t \in RawTurns(T) : WellFormed(t)}

\* The transcription backend yields its segments by non-decreasing start.
Chronological(a, b) == a.start <= b.start

\* itertracks yields the turns sorted by (start, end).
TrackOrder(a, b) == a.start < b.start \/ (a.start = b.start /\ a.end <= b.end)

\* Two turns of one speaker share more than an endpoint.
SameSpeakerOverlap(a, b) == a.speaker = b.speaker /\ a.start < b.end /\ b.start < a.end

\* u may follow the non-empty sequence q:
\*   "segments"  segments in transcription order;
\*   "raw"       turns in track order;
\*   "turns"     turns in track order, the turns of one speaker disjoint.
MayFollow(kind, q, u) ==
    IF kind = "segments" THEN Chronological(q[Len(q)], u)
    ELSE /\ TrackOrder(q[Len(q)], u)
         /\ kind = "turns" => \A i \in 1..Len(q) : ~SameSpeakerOverlap(q[i], u)

\* The sequences of at most n elements of S built by appending an element
\* that may follow.
RECURSIVE OrderedSeqs(_, _, _)
OrderedSeqs(S, n, kind) ==
    IF n = 0 THEN {<< >>}
    ELSE LET prev == OrderedSeqs(S, n - 1, kind)
             full == {q \in prev : Len(q) = n - 1}
         IN  prev \cup UNION {{Append(q, t) :
                                  t \in {u \in S : n = 1 \/ MayFollow(kind, q, u)}} :
                                 q \in full}

NoneResult == [present |-> FALSE, diarization |-> << >>]
SomeResult(turns) == [present |-> TRUE, diarization |-> turns]

\* Python truthiness of an Optional[Dict] that, when present, always has the
\* key "diarization": None is falsy, a dict with one key is truthy.
Truthy(d) == d.present

\* ----------------------------------------------------------- attribution
Overlaps(segment, spk_seg) ==
    segment.start < spk_seg.end /\ segment.end > spk_seg.start

overlap_duration(segment, spk_seg) ==
    Min(segment.end, spk_seg.end) - Max(segment.start, spk_seg.start)

\* The list of (speaker, overlap_duration) pairs, in turn order.
overlapping_speakers(segment, speaker_segments) ==
    LET sel == SelectSeq(speaker_segments, LAMBDA t : Overlaps(segment, t))
    IN  [i \in 1..Len(sel) |-> <<sel[i].speaker, overlap_duration(segment, sel[i])>>]

\* A plausible slip: max() replaced by the last maximal element.
PyMaxLast(list) ==
    list[CHOOSE i \in 1..Len(list) :
            /\ \A j \in 1..Len(list) : list[j][2] <= list[i][2]
            /\ \A j \in (i+1)..Len(list) : list[j][2] < list[i][2]]

\* Python max(list, key=lambda x: x[1]): the first element of maximal key.
PyMax(list) ==
    list[CHOOSE i \in 1..Len(list) :
            /\ \A j \in 1..Len(list) : list[j][2] <= list[i][2]
            /\ \A j \in 1..(i-1) : list[j][2] < list[i][2]]

\* A plausible slip: the turns of the speaker the segment already carries are
\* passed over.
AssignSpeakerSkipCurrent(segment, speaker_segments) ==
    LET other == SelectSeq(speaker_segments, LAMBDA t : t.speaker # segment.speaker)
        os    == overlapping_speakers(segment, other)
    IN  [segment EXCEPT !.speaker = IF os # << >> THEN PyMax(os)[1] ELSE UNKNOWN]

\* The body of the per-segment loop: the segment with its speaker key set.
AssignSpeaker(segment, speaker_segments) ==
    LET os == overlapping_speakers(segment, speaker_segments)
    IN  [segment EXCEPT !.speaker = IF os # << >> THEN PyMax(os)[1] ELSE UNKNOWN]

\* A plausible slip: the segments no turn overlaps are left out of the result.
AlignDropUnmatched(segs, diar) ==
    IF ~Truthy(diar)
    THEN segs
    ELSE SelectSeq([i \in 1..Len(segs) |-> AssignSpeaker(segs[i], diar.diarization)],
                   LAMBDA s : s.speaker # UNKNOWN)

\* align_transcription_with_speakers: the segments of the returned transcript.
align_transcription_with_speakers(segs, diar) ==
    IF ~Truthy(diar)
    THEN segs
    ELSE [i \in 1..Len(segs) |-> AssignSpeaker(segs[i], diar.diarization)]

\* ------------------------------------------------------------------ state
VARIABLES
    args,                  \* parsed command line (and whether the audio file exists)
    PYANNOTE_AVAILABLE,    \* module flags set by the optional imports
    NEMO_AVAILABLE,
    pc,                    \* position in main(), or in a direct call of the attribution
    model,                 \* processor.model is not None
    diarization_pipeline,  \* processor.diarization_pipeline is not None
    transcription,         \* transcription["segments"]
    diarization_result,    \* Optional[Dict] returned by diarize_audio
    sys_stdout,            \* what sys.stdout is bound to: "real" or "StringIO"
    out,                   \* the lines that reached the real standard output
    output_file,           \* the file at args.output
    exit_status,           \* "running", "success" (0), "failure" (1), "usage" (2), "killed" (SIGINT)
    calls,                 \* the processor / export functions called so far, in order
    faults,                \* what the backends and the environment did wrong in this run
    segments0,             \* the transcript as first produced (before attribution)
    srt                    \* a direct call of seconds_to_srt_time: argument and result

vars == <<srt, args, PYANNOTE_AVAILABLE, NEMO_AVAILABLE, pc, model, diarization_pipeline,
          transcription, diarization_result, sys_stdout, out, output_file,
          exit_status, calls, faults, segments0>>

Formats == {"json", "txt", "srt"}
Tokens == {"", "hf_valid", "hf_invalid"}
Backends == {"pyannote", "nemo"}

Args == [help : BOOLEAN, version : BOOLEAN, audio_given : BOOLEAN, audio_exists : BOOLEAN, debug : BOOLEAN,
         diarize : BOOLEAN, hf_token : Tokens, diarization_backend : Backends,
         output_format : Formats]

Transcripts(T, n) == OrderedSeqs(Segments(T), n, "segments")
TurnSeqs(T, n) == OrderedSeqs(Turns(T), n, "turns")
RawTurnSeqs(T, n) == OrderedSeqs(RawTurns(T), n, "raw")

\* What the backends can return in a pipeline run.
PipeTranscripts == Transcripts(MaxPipeTime, MaxPipeSegs)
PipeTurnSeqs == RawTurnSeqs(MaxPipeTime, MaxPipeTurns)

\* The arguments of a direct call of the attribution: sequences of well-formed
\* turns in which the turns of one speaker do not overlap, and the short
\* sequences that may hold a malformed turn.
CallTranscripts == Transcripts(MaxTime, MaxPipeSegs)
CallDiarizations ==
    {NoneResult} \cup {SomeResult(t) : t \in TurnSeqs(MaxTime, MaxTurns) \cup PipeTurnSeqs}

\* Unvalidated arguments: one segment that may have zero length, with a result
\* that may mix well-formed and malformed turns, a turn reaching one unit past
\* the last segment boundary.
UncheckedInputs ==
    {<<s>> : s \in RawSegments(MaxPipeTime)}
        \X {SomeResult(t) : t \in RawTurnSeqs(MaxPipeTime + 1, MaxPipeTurns + 1)}

\* The pairs (transcription, diarization_result) of a direct call: a short
\* transcript with any of the results above, a longer transcript with a
\* short result, or unvalidated arguments.
CallInputs ==
    (CallTranscripts \X CallDiarizations)
        \cup (Transcripts(MaxPipeTime, MaxSegs)
                 \X ({NoneResult} \cup {SomeResult(t) : t \in PipeTurnSeqs}))
        \cup UncheckedInputs

\* ------------------------------------------------------- stdout handling
\* The stream print() writes to while func runs under maybe_call.
StreamDuring(debug, cur) == IF debug THEN cur ELSE "StringIO"

\* A plausible slip: the finally clause is missing, the StringIO stays bound.
StreamAfterNoFinally(debug, cur) == IF debug THEN cur ELSE "StringIO"

\* sys.stdout once maybe_call has returned or raised (the finally clause).
StreamAfter(debug, cur) == cur

\* print(): text written to a StringIO is dropped with it.
Write(stream, o, msgs) == IF stream = "real" THEN o \o msgs ELSE o

If(c, msgs) == IF c THEN msgs ELSE << >>

\* The handler `except Exception` of main(): print, then sys.exit(1).
HandleException(stream, o) == Write(stream, o, <<"ErrGeneric">>)

\* ---------------------------------------------------------------- export
\* str.strip() on the texts of the model.
Strip(text) == IF text = " hello " THEN "hello" ELSE text

\* Python int() of a quotient: truncation toward zero.
PyInt(num, den) == IF num >= 0 THEN num \div den ELSE -((-num) \div den)

\* seconds_to_srt_time: the four numbers <<hours, minutes, secs, millis>> that the
\* f-string prints.  The argument is given in milliseconds and is a multiple of
\* 125 ms, so it is exactly representable as a float and every float operation
\* of the function is exact.  // and % round toward minus infinity, as \div and
\* % do; int() truncates toward zero.
seconds_to_srt_time(ms) ==
    <<ms \div 3600000,
      (ms % 3600000) \div 60000,
      (ms % 60000) \div 1000,
      ms - 1000 * PyInt(ms, 1000)>>

\* segment.get("speaker", ""): a missing key reads as the empty string.
GetSpeaker(segment) == IF segment.speaker = Absent THEN "" ELSE segment.speaker

\* What save_results writes for the segment at position idx (1-based).
\* A line without "[speaker] " prefix has prefix "".
RenderSegment(format, idx, segment) ==
    IF format = "json" THEN [kind |-> "json", segment |-> segment]
    ELSE IF format = "txt"
    THEN [kind |-> "txt", prefix |-> GetSpeaker(segment), text |-> Strip(segment.text)]
    ELSE [kind |-> "srt", idx |-> idx,
          start_time |-> seconds_to_srt_time(segment.start * 1000),
          end_time |-> seconds_to_srt_time(segment.end * 1000),
          prefix |-> GetSpeaker(segment), text |-> Strip(segment.text)]

Render(format, segs) == [i \in 1..Len(segs) |-> RenderSegment(format, i, segs[i])]

Untouched == [state |-> "untouched", content |-> << >>]

\* No direct call of seconds_to_srt_time is in progress.
NoSrtCall == [seconds |-> 0, time |-> << >>]

\* The keys json.dump writes after the "segments" array of the dict that
\* transcribe_audio returns: language, language_probability, duration,
\* duration_after_vad.
JsonKeys == [kind |-> "json_keys"]

\* The whole file: in JSON one json.dump of the dict, the segments and then
\* the other keys; in the text formats one write per segment.
Complete(format, data) == Render(format, data) \o If(format = "json", <<JsonKeys>>)

\* The numbers of segments that can be in the file when a write raises: in the
\* text formats the write of a segment fails, after 0 to n - 1 segments; in
\* JSON the dump fails anywhere, after 0 to n segments (the other keys missing).
WriteErrorPoints(format, n) == IF format = "json" THEN 0..n ELSE 0..(n - 1)

\* save_results, by what the file system does:
\*   "ok"          every write succeeds and the file is closed;
\*   "open_error"  open() raises, nothing is created or truncated;
\*   "write_error" a write raises after k segments were written.
save_results(data, format, outcome, k) ==
    IF outcome = "ok" THEN [state |-> "complete", content |-> Complete(format, data)]
    ELSE IF outcome = "open_error" THEN Untouched
    ELSE [state |-> "partial", content |-> SubSeq(Render(format, data), 1, k)]

\* -------------------------------------------------------------- main()
Init ==
    /\ args \in Args
    /\ PYANNOTE_AVAILABLE \in BOOLEAN
    /\ NEMO_AVAILABLE \in BOOLEAN
    /\ pc = "validate"
    /\ model = FALSE
    /\ diarization_pipeline = FALSE
    /\ transcription = << >>
    /\ diarization_result = NoneResult
    /\ sys_stdout = "real"
    /\ out = << >>
    /\ output_file = Untouched
    /\ exit_status = "running"
    /\ calls = << >>
    /\ faults = {}
    /\ segments0 = << >>
    /\ srt = NoSrtCall

\* A plausible slip: the handler ends the process with sys.exit(0).
AbortExitZero(o, fault) ==
    /\ out' = o
    /\ exit_status' = "success"
    /\ pc' = "done"
    /\ faults' = faults \cup {fault}

\* A plausible slip: the handler does not exit and the stage is tried again.
AbortRetries(o, fault) ==
    /\ out' = o
    /\ exit_status' = exit_status
    /\ pc' = pc
    /\ faults' = faults \cup {fault}

\* sys.exit(1) from a handler of main(): the run is over.
Abort(o, fault) ==
    /\ out' = o
    /\ exit_status' = "failure"
    /\ pc' = "done"
    /\ faults' = faults \cup {fault}

\* What main() prints on the standard output from parse_args to the banner:
\* -h/--help makes parse_args print the usage text; --version prints the
\* versions; a missing audio_file is parser.error (stderr only); a path that
\* does not exist is reported; otherwise the banner is printed.
BeforeTryOutput ==
    IF args.help THEN <<"Usage">>
    ELSE IF args.version
    THEN <<"Version">> \o If(PYANNOTE_AVAILABLE, <<"VersionPyannote">>)
                       \o If(NEMO_AVAILABLE, <<"VersionNemo">>)
    ELSE IF ~args.audio_given THEN << >>
    ELSE IF ~args.audio_exists THEN <<"ErrAudioNotFound">>
    ELSE <<"Config">>

\* main() from parse_args to the banner: -h/--help ends in parse_args with
\* status 0; --version returns (status 0); parser.error ends with status 2; a
\* path that does not exist ends with status 1.
ValidateArgs ==
    /\ pc = "validate"
    /\ out' = Write(sys_stdout, out, BeforeTryOutput)
    /\ IF args.help \/ args.version
       THEN exit_status' = "success" /\ pc' = "done"
       ELSE IF ~args.audio_given
       THEN exit_status' = "usage" /\ pc' = "done"
       ELSE IF ~args.audio_exists
       THEN exit_status' = "failure" /\ pc' = "done"
       ELSE pc' = "load_model" /\ UNCHANGED exit_status
    /\ UNCHANGED <<srt, args, PYANNOTE_AVAILABLE, NEMO_AVAILABLE, model, diarization_pipeline,
                   transcription, diarization_result, sys_stdout, output_file, calls,
                   faults, segments0>>

\* maybe_call(func, debug, *args, **kwargs) called with `debug` given both as the
\* second positional argument and as the keyword debug=...: the parameter gets
\* two values and Python raises TypeError before the body of maybe_call runs.
Binds(keyword_debug) == ~keyword_debug

\* main(): the 20% line and maybe_call(processor.load_model, args.debug,
\* debug=args.debug). The call does not bind, the TypeError reaches the handler
\* `except Exception`; load_model is not entered.
LoadModel ==
    /\ pc = "load_model"
    /\ ~Binds(TRUE)
    /\ Abort(HandleException(sys_stdout, Write(sys_stdout, out, <<"P20">>)),
             "call_type_error")
    /\ UNCHANGED <<srt, args, PYANNOTE_AVAILABLE, NEMO_AVAILABLE, model, diarization_pipeline,
                   transcription, diarization_result, sys_stdout, output_file, calls,
                   segments0>>

\* A KeyboardInterrupt that no handler catches: the interpreter ends the process
\* (death by SIGINT) with what was printed so far.
Killed(o, raised) ==
    /\ out' = o
    /\ exit_status' = "killed"
    /\ pc' = "done"
    /\ faults' = faults \cup raised \cup {"interrupt_uncaught"}

\* A KeyboardInterrupt before the try block of main(), on any branch (usage,
\* versions, missing argument, missing file, banner), after n of its lines were
\* printed: it is not caught.
InterruptBeforeTry ==
    /\ pc = "validate"
    /\ \E n \in 0..Len(BeforeTryOutput) :
          Killed(Write(sys_stdout, out, SubSeq(BeforeTryOutput, 1, n)), {})
    /\ UNCHANGED <<srt, args, PYANNOTE_AVAILABLE, NEMO_AVAILABLE, model, diarization_pipeline,
                   transcription, diarization_result, sys_stdout, output_file, calls,
                   segments0>>

\* main(): the handler `except KeyboardInterrupt`, the interrupt arriving in the
\* try block before or after the 20% line is printed.
Interrupt ==
    /\ pc = "load_model"
    /\ \E started \in BOOLEAN :
          Abort(Write(sys_stdout, Write(sys_stdout, out, If(started, <<"P20">>)),
                      <<"Interrupted">>),
                "interrupt")
    /\ UNCHANGED <<srt, args, PYANNOTE_AVAILABLE, NEMO_AVAILABLE, model, diarization_pipeline,
                   transcription, diarization_result, sys_stdout, output_file, calls,
                   segments0>>

\* A KeyboardInterrupt while a handler of main() runs is raised outside the try
\* block and is not caught. In `except Exception`, entered by the TypeError of
\* the call of load_model: before or after the error line is printed. In
\* `except KeyboardInterrupt`, entered by a first interrupt: before or after
\* its line is printed.
InterruptInHandler ==
    /\ pc = "load_model"
    /\ \E printed \in BOOLEAN :
          \/ Killed(Write(sys_stdout, Write(sys_stdout, out, <<"P20">>),
                          If(printed, <<"ErrGeneric">>)),
                    {"call_type_error"})
          \/ \E started \in BOOLEAN :
                Killed(Write(sys_stdout, Write(sys_stdout, out, If(started, <<"P20">>)),
                             If(printed, <<"Interrupted">>)),
                       {"interrupt"})
    /\ UNCHANGED <<srt, args, PYANNOTE_AVAILABLE, NEMO_AVAILABLE, model, diarization_pipeline,
                   transcription, diarization_result, sys_stdout, output_file, calls,
                   segments0>>

Next ==
    \/ ValidateArgs
    \/ LoadModel
    \/ InterruptBeforeTry
    \/ Interrupt
    \/ InterruptInHandler

Spec == Init /\ [][Next]_vars

\* The process keeps running as long as it has a statement to run.
SpecFair == Spec /\ WF_vars(Next)

\* ------------------------------ direct calls of the stages of the pipeline
\* One stage function called on its own, as main() calls it: the processor's
\* methods through maybe_call, save_results directly.
StageCalls == {"call_load_model", "call_load_diarization_model", "call_transcribe_audio",
               "call_diarize_audio", "call_save_results"}

\* The transcripts passed to save_results: as transcribed, or attributed.
SaveInputs ==
    PipeTranscripts
        \cup {align_transcription_with_speakers(t, SomeResult(d)) :
                 t \in PipeTranscripts, d \in PipeTurnSeqs}

InitStage ==
    /\ args \in {a \in Args : ~a.help /\ ~a.version /\ a.audio_given /\ a.audio_exists /\ a.diarize}
    /\ PYANNOTE_AVAILABLE \in BOOLEAN
    /\ NEMO_AVAILABLE \in BOOLEAN
    /\ pc \in StageCalls
    /\ model \in (IF pc = "call_transcribe_audio" THEN BOOLEAN ELSE {FALSE})
    /\ diarization_pipeline \in (IF pc = "call_diarize_audio" THEN BOOLEAN ELSE {FALSE})
    /\ transcription \in (IF pc = "call_save_results" THEN SaveInputs ELSE {<< >>})
    /\ diarization_result = NoneResult
    /\ sys_stdout = "real"
    /\ out = << >>
    /\ output_file = Untouched
    /\ exit_status = "running"
    /\ calls = << >>
    /\ faults = {}
    /\ segments0 = transcription
    /\ srt = NoSrtCall

\* The call expression does not bind: TypeError, the function is not entered
\* and sys.stdout is not touched.
CallDoesNotBind ==
    /\ pc' = "stage_raised"
    /\ faults' = faults \cup {"call_type_error"}
    /\ UNCHANGED <<out, calls, sys_stdout, model, diarization_pipeline, transcription,
                   diarization_result, segments0>>

\* The function returns to its caller.
Return(o) ==
    /\ out' = o
    /\ pc' = "stage_returned"
    /\ UNCHANGED faults

\* The function returns after a failure it has handled itself.
ReturnDegraded(o, fault) ==
    /\ out' = o
    /\ pc' = "stage_returned"
    /\ faults' = faults \cup {fault}

\* An exception leaves the function.
Raise(o, fault) ==
    /\ out' = o
    /\ pc' = "stage_raised"
    /\ faults' = faults \cup {fault}

\* maybe_call(processor.load_model, debug, ...) and the body of load_model.
CallLoadModel ==
    /\ pc = "call_load_model"
    /\ \E keyword_debug \in BOOLEAN :
          IF ~Binds(keyword_debug)
          THEN CallDoesNotBind
          ELSE LET s  == StreamDuring(args.debug, sys_stdout)
                   o2 == Write(s, out, If(args.debug, <<"DbgLoadingWhisper", "DbgDevice">>))
               IN  /\ calls' = Append(calls, "load_model")
                   /\ sys_stdout' = StreamAfter(args.debug, sys_stdout)
                   /\ \/ /\ model' = TRUE
                         /\ Return(Write(s, o2, If(args.debug, <<"DbgWhisperLoaded">>)))
                      \/ /\ \E darwin \in BOOLEAN :
                               Raise(Write(s, o2, <<"ErrLoadWhisper">>
                                                  \o If(darwin, <<"HintMacOS">>)),
                                     "whisper_load_error")
                         /\ UNCHANGED model
                   /\ UNCHANGED <<diarization_pipeline, transcription, diarization_result,
                                  segments0>>
    /\ UNCHANGED <<srt, args, PYANNOTE_AVAILABLE, NEMO_AVAILABLE, output_file, exit_status>>

\* What Pipeline.from_pretrained can do with the token it is given: return a
\* pipeline, return None without raising, or raise.
FromPretrainedOutcomes(hf_token) ==
    IF hf_token = "hf_valid" THEN {"ok", "none", "other_error"}
    ELSE {"none", "cred_error", "other_error"}

\* maybe_call(processor.load_diarization_model, debug, ...) and the body of
\* load_diarization_model.
CallLoadDiarization ==
    /\ pc = "call_load_diarization_model"
    /\ \E keyword_debug \in BOOLEAN :
          IF ~Binds(keyword_debug)
          THEN CallDoesNotBind
          ELSE LET s == StreamDuring(args.debug, sys_stdout)
               IN  /\ calls' = Append(calls, "load_diarization_model")
                   /\ sys_stdout' = StreamAfter(args.debug, sys_stdout)
                   /\ IF args.hf_token = "" /\ args.diarization_backend = "pyannote"
                      THEN /\ ReturnDegraded(Write(s, out, If(args.debug, <<"DbgNoToken">>)),
                                             "no_token")
                           /\ UNCHANGED diarization_pipeline
                      ELSE IF args.diarization_backend = "pyannote" /\ PYANNOTE_AVAILABLE
                      THEN \E outcome \in FromPretrainedOutcomes(args.hf_token) :
                             LET o2 == Write(s, out, If(args.debug, <<"DbgLoadingPyannote">>))
                             IN  IF outcome = "ok"
                                 THEN /\ diarization_pipeline' = TRUE
                                      /\ Return(o2)
                                 ELSE IF outcome = "none"
                                 THEN /\ diarization_pipeline' = FALSE
                                      /\ ReturnDegraded(o2, "pipeline_none")
                                 ELSE /\ diarization_pipeline' = FALSE
                                      /\ ReturnDegraded(
                                             Write(s, o2, <<"WarnDiarLoadFailed",
                                                            "WarnContinuing">>),
                                             IF outcome = "cred_error" THEN "cred_error"
                                                                       ELSE "diar_load_error")
                      ELSE IF args.diarization_backend = "nemo" /\ NEMO_AVAILABLE
                      THEN /\ ReturnDegraded(Write(s, out, If(args.debug, <<"DbgLoadingNemo">>)),
                                             "backend_unavailable")
                           /\ UNCHANGED diarization_pipeline
                      ELSE /\ ReturnDegraded(
                                  Write(s, out, If(args.debug, <<"DbgBackendUnavailable">>)),
                                  "backend_unavailable")
                           /\ UNCHANGED diarization_pipeline
                   /\ UNCHANGED <<model, transcription, diarization_result, segments0>>
    /\ UNCHANGED <<srt, args, PYANNOTE_AVAILABLE, NEMO_AVAILABLE, output_file, exit_status>>

\* maybe_call(processor.transcribe_audio, debug, ...) and the body of
\* transcribe_audio.
CallTranscribe ==
    /\ pc = "call_transcribe_audio"
    /\ \E keyword_debug \in BOOLEAN :
          IF ~Binds(keyword_debug)
          THEN CallDoesNotBind
          ELSE LET s == StreamDuring(args.debug, sys_stdout)
               IN  /\ calls' = Append(calls, "transcribe_audio")
                   /\ sys_stdout' = StreamAfter(args.debug, sys_stdout)
                   /\ IF ~model
                      THEN /\ Raise(out, "model_not_loaded")
                           /\ UNCHANGED <<transcription, segments0>>
                      ELSE LET o2 == Write(s, out, If(args.debug, <<"DbgTranscribing">>))
                           IN  \/ \E segs \in PipeTranscripts :
                                     /\ transcription' = segs
                                     /\ segments0' = segs
                                     /\ Return(o2)
                               \/ /\ Raise(Write(s, o2, <<"ErrTranscription">>),
                                           "transcribe_error")
                                  /\ UNCHANGED <<transcription, segments0>>
                   /\ UNCHANGED <<model, diarization_pipeline, diarization_result>>
    /\ UNCHANGED <<srt, args, PYANNOTE_AVAILABLE, NEMO_AVAILABLE, output_file, exit_status>>

\* maybe_call(processor.diarize_audio, debug, ...) and the body of diarize_audio.
CallDiarize ==
    /\ pc = "call_diarize_audio"
    /\ \E keyword_debug \in BOOLEAN :
          IF ~Binds(keyword_debug)
          THEN CallDoesNotBind
          ELSE LET s == StreamDuring(args.debug, sys_stdout)
               IN  /\ calls' = Append(calls, "diarize_audio")
                   /\ sys_stdout' = StreamAfter(args.debug, sys_stdout)
                   /\ IF ~diarization_pipeline
                      THEN /\ diarization_result' = NoneResult
                           /\ Return(Write(s, out, If(args.debug, <<"DbgNoPipeline">>)))
                      ELSE LET o2 == Write(s, out, If(args.debug, <<"DbgPerformingDiar">>))
                           IN  \/ \E turns \in PipeTurnSeqs :
                                     /\ diarization_result' = SomeResult(turns)
                                     /\ Return(o2)
                               \/ /\ diarization_result' = NoneResult
                                  /\ ReturnDegraded(Write(s, o2, <<"WarnDiarError">>),
                                                    "diar_error")
                   /\ UNCHANGED <<model, diarization_pipeline, transcription, segments0>>
    /\ UNCHANGED <<srt, args, PYANNOTE_AVAILABLE, NEMO_AVAILABLE, output_file, exit_status>>

\* save_results(args.output, transcription, args.output_format).
CallSave ==
    /\ pc = "call_save_results"
    /\ calls' = Append(calls, "save_results")
    /\ \/ /\ output_file' = save_results(transcription, args.output_format, "ok", 0)
          /\ Return(out)
       \/ /\ output_file' = save_results(transcription, args.output_format, "open_error", 0)
          /\ Raise(out, "export_open_error")
       \/ \E k \in WriteErrorPoints(args.output_format, Len(transcription)) :
             /\ output_file' = save_results(transcription, args.output_format,
                                            "write_error", k)
             /\ Raise(out, "export_write_error")
    /\ UNCHANGED <<srt, args, PYANNOTE_AVAILABLE, NEMO_AVAILABLE, model, diarization_pipeline,
                   transcription, diarization_result, sys_stdout, exit_status, segments0>>

NextStage ==
    \/ CallLoadModel
    \/ CallLoadDiarization
    \/ CallTranscribe
    \/ CallDiarize
    \/ CallSave

SpecStage == InitStage /\ [][NextStage]_vars

\* ------------------------------------- a direct call of the attribution
\* align_transcription_with_speakers called on its own, on any transcript and
\* any Optional diarization result.
InitAttr ==
    /\ args \in {a \in Args : ~a.help /\ ~a.version /\ a.audio_given /\ a.audio_exists /\ a.diarize
                              /\ a.debug /\ a.hf_token = "hf_valid"
                              /\ a.diarization_backend = "pyannote"
                              /\ a.output_format = "json"}
    /\ PYANNOTE_AVAILABLE = TRUE
    /\ NEMO_AVAILABLE = FALSE
    /\ pc = "call"
    /\ model = FALSE
    /\ diarization_pipeline = FALSE
    /\ \E input \in CallInputs :
          /\ transcription = input[1]
          /\ diarization_result = input[2]
    /\ sys_stdout = "real"
    /\ out = << >>
    /\ output_file = Untouched
    /\ exit_status = "running"
    /\ calls = << >>
    /\ faults = {}
    /\ segments0 = transcription
    /\ srt = NoSrtCall

AlignCall ==
    /\ pc = "call"
    /\ calls' = Append(calls, "align_transcription_with_speakers")
    /\ transcription' = align_transcription_with_speakers(transcription, diarization_result)
    /\ pc' = "returned"
    /\ UNCHANGED <<srt, args, PYANNOTE_AVAILABLE, NEMO_AVAILABLE, model, diarization_pipeline,
                   diarization_result, sys_stdout, out, output_file, exit_status, faults,
                   segments0>>

\* The attribution called once more, on the transcript it returned and the
\* same diarization result.
AlignAgain ==
    /\ pc = "returned"
    /\ calls' = Append(calls, "align_transcription_with_speakers")
    /\ transcription' = align_transcription_with_speakers(transcription, diarization_result)
    /\ pc' = "returned_again"
    /\ UNCHANGED <<srt, args, PYANNOTE_AVAILABLE, NEMO_AVAILABLE, model, diarization_pipeline,
                   diarization_result, sys_stdout, out, output_file, exit_status, faults,
                   segments0>>

NextAttr == AlignCall \/ AlignAgain

SpecAttr == InitAttr /\ [][NextAttr]_vars

\* ----------------------------------- a direct call of seconds_to_srt_time
\* The arguments, in milliseconds: hours, minutes, seconds and eighths of a
\* second, of either sign.
SrtInputs ==
    {sign * (h * 3600000 + m * 60000 + sec * 1000 + f * 125) :
        sign \in {-1, 1}, h \in 0..MaxHours, m \in {0, 1, 2, 59}, sec \in {0, 5, 59},
        f \in 0..7}

InitSrt ==
    /\ args \in {a \in Args : ~a.help /\ ~a.version /\ a.audio_given /\ a.audio_exists /\ a.diarize
                              /\ a.debug /\ a.hf_token = "hf_valid"
                              /\ a.diarization_backend = "pyannote"
                              /\ a.output_format = "srt"}
    /\ PYANNOTE_AVAILABLE = TRUE
    /\ NEMO_AVAILABLE = FALSE
    /\ pc = "srt_call"
    /\ model = FALSE
    /\ diarization_pipeline = FALSE
    /\ transcription = << >>
    /\ diarization_result = NoneResult
    /\ sys_stdout = "real"
    /\ out = << >>
    /\ output_file = Untouched
    /\ exit_status = "running"
    /\ calls = << >>
    /\ faults = {}
    /\ segments0 = << >>
    /\ srt \in [seconds : SrtInputs, time : {<< >>}]

SrtCall ==
    /\ pc = "srt_call"
    /\ srt' = [srt EXCEPT !.time = seconds_to_srt_time(srt.seconds)]
    /\ pc' = "srt_returned"
    /\ UNCHANGED <<args, PYANNOTE_AVAILABLE, NEMO_AVAILABLE, model, diarization_pipeline,
                   transcription, diarization_result, sys_stdout, out, output_file,
                   exit_status, calls, faults, segments0>>

NextSrt == SrtCall

SpecSrt == InitSrt /\ [][NextSrt]_vars

\* ------------------------------------------------ vocabulary of the claims
Range(q) == {q[i] : i \in 1..Len(q)}

Count(q, x) == Cardinality({i \in 1..Len(q) : q[i] = x})

\* Overlap of two intervals as a duration: max(0, min(ends) - max(starts)).
Overlap(segment, turn) ==
    Max(0, Min(segment.end, turn.end) - Max(segment.start, turn.start))

\* Overlap with the segment summed over the first n turns carrying the label.
RECURSIVE AccumulatedUpTo(_, _, _, _)
AccumulatedUpTo(segment, turns, label, n) ==
    IF n = 0 THEN 0
    ELSE AccumulatedUpTo(segment, turns, label, n - 1)
         + (IF turns[n].speaker = label THEN Overlap(segment, turns[n]) ELSE 0)

Accumulated(segment, turns, label) == AccumulatedUpTo(segment, turns, label, Len(turns))

\* A direct call has returned, or the pipeline has run the attribution step.
Attributed == "align_transcription_with_speakers" \in Range(calls)

\* The attribution ran on a non-empty sequence of well-formed turns.
AttributedWellFormed ==
    /\ Attributed
    /\ diarization_result.present
    /\ diarization_result.diarization # << >>
    /\ \A t \in Range(diarization_result.diarization) : WellFormed(t)

\* C1: after the attribution has run on a non-empty sequence of well-formed
\* turns, the label of every segment has an accumulated overlap (summed over
\* all turns of that label) at least as large as that of every other label.
C1_AccumulatedMax ==
    AttributedWellFormed =>
        \A i \in 1..Len(transcription) :
            \A l \in Labels :
                transcription[i].speaker \in Labels =>
                    Accumulated(transcription[i], diarization_result.diarization,
                                transcription[i].speaker)
                    >= Accumulated(transcription[i], diarization_result.diarization, l)

\* C2: when the diarization result is absent or has no turn, the transcript
\* stays as transcribed: no segment gets a speaker key.
C2_EmptyTurnsUnchanged ==
    (~diarization_result.present \/ diarization_result.diarization = << >>) =>
        transcription = segments0

\* The attribution ran on a result that holds at least one well-formed turn.
AttributedSomeWellFormed ==
    /\ Attributed
    /\ diarization_result.present
    /\ \E t \in Range(diarization_result.diarization) : WellFormed(t)

\* C3: after the attribution has run on a result that holds at least one
\* well-formed turn, every segment has a speaker; it is UNKNOWN when the
\* segment has zero overlap with every turn (touching intervals included), and
\* otherwise the label of a turn whose overlap with the segment is strictly
\* positive.
C3_Total ==
    AttributedSomeWellFormed =>
        /\ Len(transcription) = Len(segments0)
        /\ \A i \in 1..Len(transcription) :
              LET seg == transcription[i]
                  turns == diarization_result.diarization
              IN  /\ seg.speaker \notin {Absent, ""}
                  /\ IF \A t \in Range(turns) : Overlap(seg, t) = 0
                     THEN seg.speaker = UNKNOWN
                     ELSE \E t \in Range(turns) :
                             t.speaker = seg.speaker /\ Overlap(seg, t) > 0

\* The turns that overlap the segment and carry a label whose accumulated
\* overlap is the greatest.
TiedLabels(segment, turns) ==
    {l \in Labels :
        /\ Accumulated(segment, turns, l) > 0
        /\ \A m \in Labels : Accumulated(segment, turns, m) <= Accumulated(segment, turns, l)}

Contributing(segment, turns) ==
    {t \in Range(turns) : Overlap(segment, t) > 0 /\ t.speaker \in TiedLabels(segment, turns)}

\* C9: when two or more labels have equal (greatest) accumulated overlap with
\* a segment, the segment gets the label of an earliest-starting turn among
\* the turns contributing to the tied labels.
C9_TieBreakEarliest ==
    AttributedWellFormed =>
        \A i \in 1..Len(transcription) :
            LET seg == transcription[i]
                turns == diarization_result.diarization
            IN  Cardinality(TiedLabels(seg, turns)) >= 2 =>
                    \E t \in Contributing(seg, turns) :
                        /\ t.speaker = seg.speaker
                        /\ \A u \in Contributing(seg, turns) : t.start <= u.start

\* The diarization failures that are not about the credential.
DiarizationFaults == {"diar_load_error", "diar_error"}

\* The failures of a backend call or of the file system.
BackendFaults == {"whisper_load_error", "model_not_loaded", "transcribe_error",
                  "export_open_error", "export_write_error"}

Last(q) == q[Len(q)]

\* The ways the process ends with a status that is not zero: sys.exit(1),
\* parser.error (2), death by the signal of an uncaught KeyboardInterrupt.
NonZero == {"failure", "usage", "killed"}

\* The stages that follow the load of the transcription model.
LaterStages == {"load_diarization_model", "transcribe_audio", "diarize_audio",
                "align_transcription_with_speakers", "save_results"}

\* main() was asked to process an audio file that exists, and the run is over
\* without an interrupt and without a failure of a backend or of the file system.
RunToEnd ==
    /\ ~args.help /\ ~args.version /\ args.audio_given /\ args.audio_exists
    /\ pc = "done"
    /\ faults \cap ({"interrupt", "interrupt_uncaught"} \cup BackendFaults) = {}

\* C4: once the load of the transcription model has failed (in main() the call
\* of load_model raises) the run is over with a non-zero status, no later stage
\* was called, save_results included, and the output file is untouched.
C4_FatalAborts ==
    "call_type_error" \in faults =>
        /\ pc = "done"
        /\ exit_status \in NonZero
        /\ Range(calls) \cap LaterStages = {}
        /\ output_file = Untouched

\* C4 witness: the load failed in a run that had the diarization enabled.
C4_Witness ==
    /\ "call_type_error" \in faults
    /\ args.diarize
    /\ Count(out, "P20") = 1
    /\ pc = "done"

\* The diarization model cannot be loaded, for a reason that is not the
\* credential: the backend asked for is not installed, or is nemo.
DiarizationCannotLoad ==
    \/ args.diarization_backend = "pyannote" /\ ~PYANNOTE_AVAILABLE /\ args.hf_token # ""
    \/ args.diarization_backend = "nemo"

\* C5: a run with the diarization enabled whose diarization model cannot be
\* loaded (not for the credential) ends with success and a complete output file
\* without speakers.
C5_DegradedSuccess ==
    (RunToEnd /\ args.diarize /\ DiarizationCannotLoad) =>
        /\ exit_status = "success"
        /\ output_file.state = "complete"
        /\ output_file.content = Complete(args.output_format, segments0)

\* C6: a run with the diarization enabled and no token has tried
\* load_diarization_model twice, the second time after the prompt.
C6_CredentialRetry ==
    (RunToEnd /\ args.diarize /\ args.hf_token = ""
     /\ args.diarization_backend = "pyannote") =>
        Count(calls, "load_diarization_model") = 2

\* The warnings the code prints for a diarization failure.
DiarizationWarnings == {"WarnDiarLoadFailed", "WarnContinuing", "WarnDiarError"}

\* C7: when the call of load_diarization_model or of diarize_audio under
\* maybe_call has returned after a failure of the model or of the diarization,
\* a warning is on the real standard output, whatever the debug flag.
C7_DegradedWarns ==
    (pc = "stage_returned" /\ faults \cap (DiarizationFaults \cup {"cred_error"}) # {}) =>
        Range(out) \cap DiarizationWarnings # {}

\* The messages of the code that name the stage that failed.
StageMessages(fault) ==
    IF fault \in {"call_type_error", "whisper_load_error"} THEN {"ErrLoadWhisper"}
    ELSE IF fault = "transcribe_error" THEN {"ErrTranscription"}
    ELSE {}

\* C8: after a fatal failure of a stage, a message naming the failing stage is
\* on the real standard output, whatever the debug flag.
C8_FatalNamesStage ==
    \A f \in {"call_type_error"} \cup BackendFaults :
        (f \in faults /\ exit_status = "failure") =>
            Range(out) \cap StageMessages(f) # {}

\* C10: after save_results has raised, the output file is untouched or
\* complete.
C10_NoPartialArtifact ==
    (pc = "stage_raised" /\ faults \cap {"export_open_error", "export_write_error"} # {}) =>
        output_file.state \in {"untouched", "complete"}

\* C11: a diarization result that holds a malformed turn (end <= start) is
\* rejected before the attribution, so no segment ever carries the label of a
\* malformed turn of the result.
C11_MalformedRejected ==
    diarization_result.present =>
        \A t \in Range(diarization_result.diarization) :
            ~WellFormed(t) =>
                \A i \in 1..Len(transcription) : transcription[i].speaker # t.speaker

\* C12: seconds_to_srt_time returns hours = t div 3600 s, minutes = (t mod
\* 3600 s) div 60 s, seconds = t mod 60 s and the millisecond remainder for
\* every non-negative t, and 00:00:00,000 for every negative t.
C12_SrtTime ==
    pc = "srt_returned" =>
        LET t == srt.seconds
        IN  IF t >= 0
            THEN srt.time = <<t \div 3600000, (t % 3600000) \div 60000,
                              (t % 60000) \div 1000, t % 1000>>
            ELSE srt.time = <<0, 0, 0, 0>>

\* The stages that exist only for the diarization.
DiarizationStages == {"load_diarization_model", "diarize_audio",
                      "align_transcription_with_speakers"}

\* An exported item shows no speaker: no key in JSON, no "[speaker] " prefix
\* in the text formats.
NoSpeakerShown(item) ==
    IF item.kind = "json_keys" THEN TRUE
    ELSE IF item.kind = "json" THEN item.segment.speaker = Absent
    ELSE item.prefix = ""

\* C13: a run with the diarization disabled calls none of the diarization
\* stages and ends with an exported transcript that shows no speaker.
C13_DisabledSkips ==
    (RunToEnd /\ ~args.diarize) =>
        /\ Range(calls) \cap DiarizationStages = {}
        /\ output_file.state = "complete"
        /\ \A i \in 1..Len(output_file.content) : NoSpeakerShown(output_file.content[i])

\* The order LoadTranscriber, Transcribe, LoadDiarizer, Diarize, Attribute, Export.
TranscribeFirstOrder == <<"load_model", "transcribe_audio", "load_diarization_model",
                          "diarize_audio", "align_transcription_with_speakers",
                          "save_results">>

Position(order, call) == CHOOSE i \in 1..Len(order) : order[i] = call

\* The calls made so far follow `order`, each stage at most once.
CallsFollow(order) ==
    \A i, j \in 1..Len(calls) :
        i < j => Position(order, calls[i]) < Position(order, calls[j])

\* C14: a run with the diarization enabled executes its stages, from
\* load_model to save_results, in the order LoadTranscriber, Transcribe,
\* LoadDiarizer, Diarize, Attribute, Export.
C14_TranscribeBeforeLoadDiarizer ==
    (RunToEnd /\ args.diarize) =>
        /\ Len(calls) >= 2
        /\ calls[1] = "load_model"
        /\ Last(calls) = "save_results"
        /\ CallsFollow(TranscribeFirstOrder)

\* The progress lines of main().
ProgressLines == {"P20", "P25", "P30", "P35", "P40", "P70", "P75", "P90", "P95", "P98", "P100"}

\* A plausible slip: a mistyped figure in the first progress line.
PctMistyped(msg) ==
    CASE msg = "P20" -> 200 [] msg = "P25" -> 25 [] msg = "P30" -> 30 [] msg = "P35" -> 35
      [] msg = "P40" -> 40 [] msg = "P70" -> 70 [] msg = "P75" -> 75 [] msg = "P90" -> 90
      [] msg = "P95" -> 95 [] msg = "P98" -> 98 [] msg = "P100" -> 100

\* The percentage a progress line of main() shows between its brackets.
Pct(msg) ==
    CASE msg = "P20" -> 20 [] msg = "P25" -> 25 [] msg = "P30" -> 30 [] msg = "P35" -> 35
      [] msg = "P40" -> 40 [] msg = "P70" -> 70 [] msg = "P75" -> 75 [] msg = "P90" -> 90
      [] msg = "P95" -> 95 [] msg = "P98" -> 98 [] msg = "P100" -> 100

IsProgressLine(msg) == msg \in ProgressLines

\* The percentages reported so far, in the order of their lines.
Reported(o) == LET lines == SelectSeq(o, IsProgressLine)
               IN  [i \in 1..Len(lines) |-> Pct(lines[i])]

\* C15: on every path the reported percentages never decrease and lie in
\* 0..100, and 100 is reported only once save_results has returned without
\* error.
C15_ProgressMonotone ==
    LET r == Reported(out)
    IN  /\ \A i \in 1..Len(r) : r[i] \in 0..100
        /\ \A i \in 1..(Len(r) - 1) : r[i] <= r[i + 1]
        /\ (\E i \in 1..Len(r) : r[i] = 100) =>
               /\ Len(calls) > 0
               /\ Last(calls) = "save_results"
               /\ output_file.state = "complete"

\* C15 witness: a run that aborted after its first progress line.
C15_Witness ==
    /\ pc = "done"
    /\ exit_status = "failure"
    /\ Reported(out) = <<20>>
    /\ Last(out) = "ErrGeneric"

\* C16: whenever maybe_call has returned or raised, sys.stdout is the stream it
\* was before the call, in quiet and in debug mode; and in debug mode the
\* stream is not replaced during the call, so the text the backend call prints
\* reaches it.
C16_SuppressionScoped ==
    /\ sys_stdout = "real"
    /\ (args.debug /\ Count(calls, "load_model") > 0) =>
           Count(out, "DbgLoadingWhisper") = 1
    /\ (args.debug /\ "transcribe_error" \in faults) => Last(out) = "ErrTranscription"

\* C16 witness: in quiet mode transcribe_audio raised inside maybe_call.
C16_Witness ==
    /\ ~args.debug
    /\ pc = "stage_raised"
    /\ "transcribe_error" \in faults
    /\ Last(calls) = "transcribe_audio"
    /\ sys_stdout = "real"

\* A run is over: the artifact is exported and the status is success, or the
\* process has exited with a non-zero status.
Terminal ==
    /\ pc = "done"
    /\ \/ exit_status = "success" /\ output_file.state = "complete"
       \/ exit_status \in NonZero

\* C17: every run (every invocation but --help and --version, which start no
\* run) reaches a terminal state;
\* each stage is started at most once, the load of the diarization model and
\* diarize_audio are each attempted at most once, and nothing is tried again
\* after a failure.
C17_Terminates ==
    /\ [](/\ Count(out, "P20") <= 1
          /\ Count(calls, "load_diarization_model") <= 1
          /\ Count(calls, "diarize_audio") <= 1)
    /\ <>(pc = "done" /\ ((~args.help /\ ~args.version) => Terminal))

C17_Witness ==
    /\ Terminal
    /\ exit_status = "failure"
    /\ "call_type_error" \in faults
    /\ Count(out, "P20") = 1

\* C18: the attribution applied to its own output with the same turns returns
\* that output: the second call changes nothing in the transcript.
C18_Idempotent ==
    [][(pc = "returned" /\ pc' = "returned_again") => transcription' = transcription]_vars

C18_Witness ==
    /\ pc = "returned_again"
    /\ Count(calls, "align_transcription_with_speakers") = 2
    /\ AttributedWellFormed
    /\ \E i \in 1..Len(transcription) : transcription[i].speaker \in Labels
    /\ \E t \in Range(diarization_result.diarization) :
          \E i \in 1..Len(transcription) :
              Overlap(transcription[i], t) > 0 /\ t.speaker # transcription[i].speaker

\* C19: the attribution changes nothing but the speaker of the segments: the
\* returned transcript has the segments of the input, in the same number and
\* order, with their start, end and text, and the turn sequence is left as it
\* was.
C19_OnlySpeakerChanges ==
    /\ [](Attributed =>
            /\ Len(transcription) = Len(segments0)
            /\ \A i \in 1..Len(transcription) :
                  /\ transcription[i].start = segments0[i].start
                  /\ transcription[i].end = segments0[i].end
                  /\ transcription[i].text = segments0[i].text)
    /\ [][diarization_result' = diarization_result]_vars

C19_Witness ==
    /\ pc = "returned"
    /\ AttributedWellFormed
    /\ Len(transcription) = 2
    /\ transcription[1].start < transcription[2].start
    /\ transcription[1].speaker \in Labels
    /\ transcription[2].speaker = UNKNOWN

\* The positions of the turns whose own overlap with the segment is positive
\* and the greatest of all turns.
MaximalTurns(segment, turns) ==
    {k \in 1..Len(turns) :
        /\ Overlap(segment, turns[k]) > 0
        /\ \A j \in 1..Len(turns) : Overlap(segment, turns[j]) <= Overlap(segment, turns[k])}

\* C20: a segment that overlaps at least one turn gets the label of the first
\* turn, in the order of the sequence, whose own overlap with it is the
\* greatest.
C20_FirstMaximalTurn ==
    (Attributed /\ diarization_result.present) =>
        \A i \in 1..Len(transcription) :
            LET turns == diarization_result.diarization
                best  == MaximalTurns(segments0[i], turns)
            IN  best # {} =>
                    \E k \in best :
                        /\ \A j \in best : k <= j
                        /\ transcription[i].speaker = turns[k].speaker

C20_Witness ==
    /\ pc = "returned"
    /\ AttributedWellFormed
    /\ \E i \in 1..Len(transcription) :
          LET turns == diarization_result.diarization
              best  == MaximalTurns(segments0[i], turns)
          IN  \E j, k \in best :
                 /\ j < k
                 /\ turns[j].speaker # turns[k].speaker
                 /\ \A m \in best : j <= m
                 /\ transcription[i].speaker = turns[j].speaker

====
